---------------------------- MODULE Spec2Model ----------------------------
(***************************************************************************)
(* A model of pythonx/formatter.py (vim-snakecharmer): Formatter.format    *)
(* and everything it calls.                                                *)
(*                                                                         *)
(* Text is modelled as TLA+ strings (sequences of characters), a fragment  *)
(* as a sequence of strings.  The two library calls the formatter rests on *)
(* are modelled by what they do on the characters the model uses:          *)
(*   - textwrap.fill (defaults: break_long_words, drop_whitespace), on     *)
(*     text without tabs and hyphens;                                      *)
(*   - ast.parse, as a tokenizer and a recursive-descent parser of the     *)
(*     Python 3.4 grammar the code is written for (Num, Str, NameConstant  *)
(*     leaves; Call.starargs / Call.kwargs), restricted to the statements  *)
(*     the model feeds it.  A text outside that restriction parses to      *)
(*     "Other"; InGrammar states that no reachable state does.             *)
(* A value returned by a handler keeps its Python type: a str or a list of *)
(* str, because the code's behaviour depends on which one it got.          *)
(***************************************************************************)
EXTENDS Integers, Sequences, FiniteSets, TLC

VARIABLES
    lines,      \* format's argument `lines` of the current call
    width,      \* format's `width`: the argument, then reduced by the indent
    data,       \* the unindented lines
    indent,     \* the indent unindent measured
    blocks,     \* the blocks of the segmentation loop
    ret,        \* the accumulated result, and at "done" the returned value
    i,          \* number of lines of data the segmentation loop has consumed
    b,          \* number of blocks the rendering loop has consumed
    pc,         \* position in format
    raised,     \* whether the current call ended in the except clause
    call,       \* 1: format(lines, width); 2: format of the first call's result
    arg,        \* the arguments of the call under study
    out         \* the result of the first call (<<>> until it returned)

vars == <<lines, width, data, indent, blocks, ret, i, b, pc, raised, call, arg, out>>

-----------------------------------------------------------------------------
(* Strings *)

Ch(s, k) == SubSeq(s, k, k)

Min(x, y) == IF x <= y THEN x ELSE y

\* s[k:] and s[:k] of Python, for k >= 0
From(s, k) == IF k >= Len(s) THEN "" ELSE SubSeq(s, k + 1, Len(s))

To(s, k) == SubSeq(s, 1, Min(k, Len(s)))

startswith(s, p) == Len(s) >= Len(p) /\ SubSeq(s, 1, Len(p)) = p

RECURSIVE Spaces(_)
Spaces(n) == IF n <= 0 THEN "" ELSE " " \o Spaces(n - 1)

\* sep.join(strs)
RECURSIVE join(_, _)
join(sep, strs) ==
    IF Len(strs) = 0 THEN ""
    ELSE IF Len(strs) = 1 THEN strs[1]
    ELSE strs[1] \o sep \o join(sep, Tail(strs))

\* the characters of a str, as iterating it yields them
Chars(s) == [k \in 1..Len(s) |-> Ch(s, k)]

Whitespace == {" ", "\n"}

IsBlank(s) == \A k \in 1..Len(s) : Ch(s, k) \in Whitespace

\* number of leading whitespace characters
RECURSIVE LeadingWs(_)
LeadingWs(s) ==
    IF Len(s) > 0 /\ Ch(s, 1) \in Whitespace THEN 1 + LeadingWs(From(s, 1)) ELSE 0

\* s.replace(old, ''), old not empty: every occurrence, left to right
RECURSIVE remove(_, _)
remove(s, old) ==
    IF Len(s) = 0 THEN ""
    ELSE IF startswith(s, old) THEN remove(From(s, Len(old)), old)
    ELSE Ch(s, 1) \o remove(From(s, 1), old)

RECURSIVE Contains(_, _)
Contains(s, sub) ==
    IF Len(s) < Len(sub) THEN FALSE
    ELSE startswith(s, sub) \/ Contains(From(s, 1), sub)

-----------------------------------------------------------------------------
(* textwrap.fill, as format_comments calls it *)

\* TextWrapper._munge_whitespace: every whitespace character becomes a space
RECURSIVE munge_whitespace(_)
munge_whitespace(text) ==
    IF Len(text) = 0 THEN ""
    ELSE (IF Ch(text, 1) \in Whitespace THEN " " ELSE Ch(text, 1))
         \o munge_whitespace(From(text, 1))

\* length of the longest prefix of s made of blanks (ws = TRUE) or of non-blanks
RECURSIVE RunLen(_, _)
RunLen(s, ws) ==
    IF Len(s) > 0 /\ ((Ch(s, 1) = " ") = ws) THEN 1 + RunLen(From(s, 1), ws) ELSE 0

\* TextWrapper._split on text without hyphens: the maximal runs of blanks and
\* of non-blanks, in order
RECURSIVE split_chunks(_)
split_chunks(text) ==
    IF Len(text) = 0 THEN <<>>
    ELSE LET n == RunLen(text, Ch(text, 1) = " ")
         IN  <<To(text, n)>> \o split_chunks(From(text, n))

RECURSIVE SumLen(_)
SumLen(strs) == IF Len(strs) = 0 THEN 0 ELSE Len(strs[1]) + SumLen(Tail(strs))

\* the inner loop of _wrap_chunks: how many leading chunks fit in w columns
RECURSIVE Fit(_, _, _, _)
Fit(chunks, k, cur_len, w) ==
    IF k < Len(chunks) /\ cur_len + Len(chunks[k + 1]) <= w
    THEN Fit(chunks, k + 1, cur_len + Len(chunks[k + 1]), w)
    ELSE k

\* TextWrapper._handle_long_word with break_long_words: how much of the chunk
\* that is longer than the line goes on the current line
space_left(w, cur_len) == IF w < 1 THEN 1 ELSE w - cur_len

Raise(e) == [t |-> "raise", e |-> e]

IsRaise(v) == v.t = "raise"

List(v) == [t |-> "list", v |-> v]

Hang == [t |-> "hang"]

\* TextWrapper._wrap_chunks (self.width > 0), one line per step.  With
\* break_long_words a chunk longer than the line is cut, and what is left of it
\* stays in the list even when empty; an empty chunk that heads the list while
\* no line is out yet and the line has a negative capacity is cut again and
\* again, each time to itself: the loop never ends.
RECURSIVE wrap_chunks(_, _, _, _)
wrap_chunks(chunks, done, ind, selfwidth) ==
    IF Len(chunks) = 0 THEN List(done)
    ELSE LET w    == selfwidth - Len(ind)
             c0   == IF IsBlank(chunks[1]) /\ Len(done) > 0 THEN Tail(chunks) ELSE chunks
             n    == Fit(c0, 0, 0, w)
             cur1 == SubSeq(c0, 1, n)
             r1   == SubSeq(c0, n + 1, Len(c0))
             long == Len(r1) > 0 /\ Len(r1[1]) > w
             sl   == space_left(w, SumLen(cur1))
             cur2 == IF long THEN Append(cur1, To(r1[1], sl)) ELSE cur1
             r2   == IF long THEN <<From(r1[1], sl)>> \o Tail(r1) ELSE r1
             cur3 == IF Len(cur2) > 0 /\ IsBlank(cur2[Len(cur2)])
                     THEN SubSeq(cur2, 1, Len(cur2) - 1) ELSE cur2
             d2   == IF Len(cur3) > 0 THEN Append(done, ind \o join("", cur3)) ELSE done
         IN  IF r2 = chunks /\ d2 = done THEN Hang
             ELSE wrap_chunks(r2, d2, ind, selfwidth)

\* format_comments without initial_indent and subsequent_indent
format_comments_unprefixed(tok, ls, w) ==
    LET stripped == IF tok # "" THEN [k \in 1..Len(ls) |-> remove(ls[k], tok)] ELSE ls
        text     == munge_whitespace(join("\n", stripped))
        wrapped  == wrap_chunks(split_chunks(text), <<>>, "", w)
    IN  IF w <= 0 THEN Raise("ValueError")
        ELSE IF wrapped.t = "hang" THEN Hang
        ELSE List(IF Len(wrapped.v) = 0 THEN <<"">> ELSE wrapped.v)

\* format_comments: the lines returned, the exception textwrap raises, or Hang
format_comments(tok, ls, w) ==
    LET stripped == IF tok # "" THEN [k \in 1..Len(ls) |-> remove(ls[k], tok)] ELSE ls
        text     == munge_whitespace(join("\n", stripped))
        wrapped  == wrap_chunks(split_chunks(text), <<>>, tok, w)
    IN  IF w <= 0 THEN Raise("ValueError")
        ELSE IF wrapped.t = "hang" THEN Hang
        ELSE List(IF Len(wrapped.v) = 0 THEN <<"">> ELSE wrapped.v)

-----------------------------------------------------------------------------
(* ast.parse: the tokenizer *)

Letters ==
    {"a", "b", "c", "d", "e", "f", "g", "h", "i", "j", "k", "l", "m", "n", "o", "p",
     "q", "r", "s", "t", "u", "v", "w", "x", "y", "z", "N", "T", "F", "_"}

Digits == {"0", "1", "2", "3", "4", "5", "6", "7", "8", "9"}

\* keywords of Python 3.4 the parser below gives no meaning to
OtherKeywords ==
    {"and", "assert", "break", "class", "continue", "def", "del", "elif", "else",
     "except", "finally", "for", "global", "if", "in", "is", "lambda", "nonlocal",
     "not", "or", "pass", "raise", "return", "try", "while", "with", "yield"}

StringPrefixes == {"r", "u", "b", "br", "rb"}

Token(k, v) == [k |-> k, v |-> v]

\* length of the longest prefix of s whose characters are all in set
RECURSIVE Span(_, _)
Span(s, set) == IF Len(s) > 0 /\ Ch(s, 1) \in set THEN 1 + Span(From(s, 1), set) ELSE 0

\* length of the longest prefix of s without a character of set
RECURSIVE SpanNot(_, _)
SpanNot(s, set) ==
    IF Len(s) > 0 /\ Ch(s, 1) \notin set THEN 1 + SpanNot(From(s, 1), set) ELSE 0

\* Tokens of text from position p (0-based offset) on.  "ERR" is an error of the
\* tokenizer (a SyntaxError); "OTHER" is text this model gives no tokens to.
RECURSIVE LexLine(_, _)
RECURSIVE Lex(_, _, _)
\* at the start of a logical line: blank and comment-only lines are skipped, any
\* other line that starts with whitespace is an unexpected indent (the model has
\* no compound statement)
LexLine(s, p) ==
    LET n == Span(From(s, p), {" "})
        q == p + n
        c == Ch(s, q + 1)
    IN  IF q >= Len(s) THEN <<>>
        ELSE IF c = "\n" THEN LexLine(s, q + 1)
        ELSE IF c = "#" THEN LexLine(s, q + SpanNot(From(s, q), {"\n"}))
        ELSE IF n > 0 THEN <<Token("ERR", "IndentationError")>>
        ELSE Lex(s, q, 0)

Lex(s, p, depth) ==
    IF p >= Len(s)
    THEN IF depth > 0 THEN <<Token("ERR", "EOF in multi-line statement")>>
         ELSE <<Token("NL", "")>>
    ELSE LET c    == Ch(s, p + 1)
             c2   == IF p + 1 < Len(s) THEN Ch(s, p + 2) ELSE ""
             rest == From(s, p)
         IN  CASE c = " " -> Lex(s, p + 1, depth)
               [] c = "\n" ->
                    IF depth > 0 THEN Lex(s, p + 1, depth)
                    ELSE <<Token("NL", "")>> \o LexLine(s, p + 1)
               [] c = "#" -> Lex(s, p + SpanNot(rest, {"\n"}), depth)
               [] c \in Letters ->
                    LET n    == Span(rest, Letters \cup Digits)
                        name == To(rest, n)
                        nxt  == IF p + n < Len(s) THEN Ch(s, p + n + 1) ELSE ""
                    IN  IF name \in OtherKeywords
                           \/ (nxt \in {"\"", "'"} /\ name \in StringPrefixes)
                        THEN <<Token("OTHER", name)>>
                        ELSE <<Token("NAME", name)>> \o Lex(s, p + n, depth)
               [] c \in Digits ->
                    LET n   == Span(rest, Digits)
                        nxt == IF p + n < Len(s) THEN Ch(s, p + n + 1) ELSE ""
                    IN  IF nxt \in Letters \cup {"."} \/ (c = "0" /\ n > 1)
                        THEN <<Token("OTHER", To(rest, n))>>
                        ELSE <<Token("NUM", To(rest, n))>> \o Lex(s, p + n, depth)
               [] c \in {"\"", "'"} ->
                    LET n == SpanNot(From(rest, 1), {c, "\n", "\\"})
                        e == IF p + 1 + n < Len(s) THEN Ch(s, p + n + 2) ELSE ""
                    IN  IF e = "\\" \/ (n = 0 /\ e = c /\ startswith(From(rest, 2), c))
                        THEN <<Token("OTHER", c)>>
                        ELSE IF e # c
                        THEN <<Token("ERR", "EOL while scanning string literal")>>
                        ELSE <<Token("STR", SubSeq(rest, 2, n + 1))>>
                             \o Lex(s, p + n + 2, depth)
               [] c \in {"(", "[", "{"} -> <<Token("OP", c)>> \o Lex(s, p + 1, depth + 1)
               [] c \in {")", "]", "}"} ->
                    <<Token("OP", c)>> \o Lex(s, p + 1, IF depth > 0 THEN depth - 1 ELSE 0)
               [] c \in {",", ":"} -> <<Token("OP", c)>> \o Lex(s, p + 1, depth)
               [] c = "." ->
                    IF c2 \in Digits \cup {"."} THEN <<Token("OTHER", c)>>
                    ELSE <<Token("OP", c)>> \o Lex(s, p + 1, depth)
               [] c \in {"=", "+"} ->
                    IF c2 = "=" THEN <<Token("OTHER", c)>>
                    ELSE <<Token("OP", c)>> \o Lex(s, p + 1, depth)
               [] c = "*" ->
                    IF c2 = "=" \/ startswith(rest, "**=") THEN <<Token("OTHER", c)>>
                    ELSE IF c2 = "*" THEN <<Token("OP", "**")>> \o Lex(s, p + 2, depth)
                    ELSE <<Token("OP", c)>> \o Lex(s, p + 1, depth)
               [] OTHER -> <<Token("OTHER", c)>>

tokenize(text) == LexLine(text, 0)

-----------------------------------------------------------------------------
(* ast.parse: the nodes and the parser (Python 3.4 grammar and ast.c checks) *)

None == [kind |-> "None"]

Name(id) == [kind |-> "Name", id |-> id]

Num(n) == [kind |-> "Num", n |-> n]

Str(s) == [kind |-> "Str", s |-> s]

NameConstant(v) == [kind |-> "NameConstant", value |-> v]

Call(func, args, keywords, starargs, kwargs) ==
    [kind |-> "Call", func |-> func, args |-> args, keywords |-> keywords,
     starargs |-> starargs, kwargs |-> kwargs]

Collection(kind, elts) == [kind |-> kind, elts |-> elts]

Dict(keys, values) == [kind |-> "Dict", keys |-> keys, values |-> values]

\* node kinds the formatter has no handler for
BinOp(left, right) == [kind |-> "BinOp", left |-> left, right |-> right]

UnaryOp(operand) == [kind |-> "UnaryOp", operand |-> operand]

Starred(value) == [kind |-> "Starred", value |-> value]

Attribute(value, attr) == [kind |-> "Attribute", value |-> value, attr |-> attr]

Assign(targets, value) == [kind |-> "Assign", targets |-> targets, value |-> value]

Expr(value) == [kind |-> "Expr", value |-> value]

Import(names) == [kind |-> "Import", names |-> names]

ImportFrom(module, names) == [kind |-> "ImportFrom", module |-> module, names |-> names]

SyntaxError == [t |-> "SyntaxError"]

Other == [t |-> "Other"]

Ok(n, p) == [t |-> "ok", n |-> n, p |-> p]

\* the token at position p (1-based), "EOF" past the end
Tok(ts, p) == IF p <= Len(ts) THEN ts[p] ELSE Token("EOF", "")

IsOp(ts, p, o) == Tok(ts, p).k = "OP" /\ Tok(ts, p).v = o

IsKw(ts, p, w) == Tok(ts, p).k = "NAME" /\ Tok(ts, p).v = w

ReservedNames == {"import", "from", "as"}

BinaryOperators == {"+", "*", "**"}

\* The rules of an expression call one another through P, by name.
RECURSIVE P(_, _, _, _)

\* test: a primary, or an operation on primaries
PTest(ts, p) ==
    LET a == P("unary", ts, p, <<>>)
    IN  IF a.t # "ok" THEN a
        ELSE IF Tok(ts, a.p).k = "OP" /\ Tok(ts, a.p).v \in BinaryOperators
        THEN LET r == P("test", ts, a.p + 1, <<>>)
             IN  IF r.t # "ok" THEN r ELSE Ok(BinOp(a.n, r.n), r.p)
        ELSE a

\* test | star_expr: the grammar takes a starred item in a tuple, in a list and
\* in a statement's testlist (the compiler, not ast.parse, rejects it later)
PStarOrTest(ts, p) ==
    IF IsOp(ts, p, "*")
    THEN LET r == P("unary", ts, p + 1, <<>>)
         IN  IF r.t # "ok" THEN r ELSE Ok(Starred(r.n), r.p)
    ELSE P("test", ts, p, <<>>)

PUnary(ts, p) ==
    IF IsOp(ts, p, "+")
    THEN LET r == P("unary", ts, p + 1, <<>>)
         IN  IF r.t # "ok" THEN r ELSE Ok(UnaryOp(r.n), r.p)
    ELSE LET a == P("atom", ts, p, <<>>)
         IN  IF a.t # "ok" THEN a ELSE P("trailers", ts, a.p, a.n)

\* adjacent string literals are one Str
PStrings(ts, p, acc) ==
    IF Tok(ts, p).k = "STR" THEN P("strings", ts, p + 1, acc \o Tok(ts, p).v)
    ELSE Ok(Str(acc), p)

PAtom(ts, p) ==
    LET tk == Tok(ts, p)
        elts(close) == P("elts", ts, p + 1, [close |-> close, acc |-> <<>>, comma |-> FALSE])
    IN  CASE tk.k = "NAME" ->
               IF tk.v \in ReservedNames THEN SyntaxError
               ELSE IF tk.v \in {"None", "True", "False"} THEN Ok(NameConstant(tk.v), p + 1)
               ELSE Ok(Name(tk.v), p + 1)
          [] tk.k = "NUM" -> Ok(Num(tk.v), p + 1)
          [] tk.k = "STR" -> P("strings", ts, p, "")
          [] tk.k = "OP" /\ tk.v = "(" ->
               LET r == elts(")")
               IN  IF r.t # "ok" THEN r
                   ELSE IF Len(r.n) = 1 /\ ~r.comma THEN Ok(r.n[1], r.p)
                   ELSE Ok(Collection("Tuple", r.n), r.p)
          [] tk.k = "OP" /\ tk.v = "[" ->
               LET r == elts("]")
               IN  IF r.t # "ok" THEN r ELSE Ok(Collection("List", r.n), r.p)
          [] tk.k = "OP" /\ tk.v = "{" ->
               IF IsOp(ts, p + 1, "}") THEN Ok(Dict(<<>>, <<>>), p + 2)
               ELSE LET k == P("test", ts, p + 1, <<>>)
                    IN  IF k.t # "ok" THEN k
                        ELSE IF IsOp(ts, k.p, ":")
                        THEN P("dict", ts, p + 1, [keys |-> <<>>, values |-> <<>>])
                        ELSE LET r == elts("}")
                             IN  IF r.t # "ok" THEN r ELSE Ok(Collection("Set", r.n), r.p)
          [] OTHER -> SyntaxError

\* tests separated by commas up to the closing token; a trailing comma is allowed
PElts(ts, p, close, acc, comma) ==
    IF IsOp(ts, p, close) THEN [t |-> "ok", n |-> acc, comma |-> comma, p |-> p + 1]
    ELSE LET e == P(IF close = "}" THEN "test" ELSE "star_or_test", ts, p, <<>>)
         IN  IF e.t # "ok" THEN e
             ELSE IF IsOp(ts, e.p, ",")
             THEN P("elts", ts, e.p + 1, [close |-> close, acc |-> Append(acc, e.n), comma |-> TRUE])
             ELSE IF IsOp(ts, e.p, close)
             THEN [t |-> "ok", n |-> Append(acc, e.n), comma |-> comma, p |-> e.p + 1]
             ELSE SyntaxError

\* key: value pairs up to the closing brace
PDictItems(ts, p, keys, values) ==
    IF IsOp(ts, p, "}") THEN Ok(Dict(keys, values), p + 1)
    ELSE LET k == P("test", ts, p, <<>>)
         IN  IF k.t # "ok" THEN k
             ELSE IF ~IsOp(ts, k.p, ":") THEN SyntaxError
             ELSE LET v == P("test", ts, k.p + 1, <<>>)
                  IN  IF v.t # "ok" THEN v
                      ELSE IF IsOp(ts, v.p, ",")
                      THEN P("dict", ts, v.p + 1,
                             [keys |-> Append(keys, k.n), values |-> Append(values, v.n)])
                      ELSE IF IsOp(ts, v.p, "}")
                      THEN Ok(Dict(Append(keys, k.n), Append(values, v.n)), v.p + 1)
                      ELSE SyntaxError

\* arglist of 3.4: (argument ',')* (argument [','] | '*' test (',' argument)*
\* [',' '**' test] | '**' test), with ast.c's checks.  c: the call so far;
\* comma: whether a comma precedes p.
PArgs(ts, p, c, comma) ==
    IF IsOp(ts, p, ")")
    THEN IF comma /\ (c.starargs # None \/ c.kwargs # None) THEN SyntaxError
         ELSE Ok(c, p + 1)
    ELSE IF c.kwargs # None THEN SyntaxError
    ELSE LET star  == IsOp(ts, p, "*")
             dstar == IsOp(ts, p, "**")
             e     == P("test", ts, IF star \/ dstar THEN p + 1 ELSE p, <<>>)
             kw    == ~star /\ ~dstar /\ e.t = "ok" /\ IsOp(ts, e.p, "=")
             v     == IF kw THEN P("test", ts, e.p + 1, <<>>) ELSE e
             bad   == \/ (star /\ c.starargs # None)
                      \/ (kw /\ e.n.kind # "Name")
                      \/ (kw /\ \E k \in 1..Len(c.keywords) : c.keywords[k].arg = e.n.id)
                      \/ (~kw /\ ~star /\ ~dstar /\ (Len(c.keywords) > 0 \/ c.starargs # None))
             c2    == IF star THEN [c EXCEPT !.starargs = v.n]
                      ELSE IF dstar THEN [c EXCEPT !.kwargs = v.n]
                      ELSE IF kw
                      THEN [c EXCEPT !.keywords = Append(@, [arg |-> e.n.id, value |-> v.n])]
                      ELSE [c EXCEPT !.args = Append(@, v.n)]
         IN  IF e.t # "ok" THEN e
             ELSE IF v.t # "ok" THEN v
             ELSE IF bad THEN SyntaxError
             ELSE IF IsOp(ts, v.p, ",") THEN P("args", ts, v.p + 1, [c |-> c2, comma |-> TRUE])
             ELSE IF IsOp(ts, v.p, ")") THEN Ok(c2, v.p + 1)
             ELSE SyntaxError

\* trailers of a primary n: calls and attribute references
PTrailers(ts, p, n) ==
    IF IsOp(ts, p, "(")
    THEN LET r == P("args", ts, p + 1,
                    [c |-> Call(n, <<>>, <<>>, None, None), comma |-> FALSE])
         IN  IF r.t # "ok" THEN r ELSE P("trailers", ts, r.p, r.n)
    ELSE IF IsOp(ts, p, ".")
    THEN IF Tok(ts, p + 1).k = "NAME" /\ Tok(ts, p + 1).v \notin ReservedNames
         THEN P("trailers", ts, p + 2, Attribute(n, Tok(ts, p + 1).v))
         ELSE SyntaxError
    ELSE IF IsOp(ts, p, "[") THEN Other
    ELSE Ok(n, p)

\* testlist of a statement: tests separated by commas, up to "=" or the end of
\* the line; with a comma it is a Tuple
PTestList(ts, p, acc, comma) ==
    IF Len(acc) > 0 /\ comma /\ (IsOp(ts, p, "=") \/ Tok(ts, p).k = "NL")
    THEN Ok(Collection("Tuple", acc), p)
    ELSE LET e == P("star_or_test", ts, p, <<>>)
         IN  IF e.t # "ok" THEN e
             ELSE IF IsOp(ts, e.p, ",")
             THEN P("testlist", ts, e.p + 1, [acc |-> Append(acc, e.n), comma |-> TRUE])
             ELSE IF comma THEN Ok(Collection("Tuple", Append(acc, e.n)), e.p)
             ELSE e

\* ast.c set_context: what may stand left of "="
RECURSIVE TargetCheck(_)
TargetCheck(n) ==
    CASE n.kind \in {"Name", "Attribute"} -> "ok"
      [] n.kind = "Starred" -> "Other"
      [] n.kind \in {"Tuple", "List"} ->
           IF Len(n.elts) = 0 THEN "Other"
           ELSE IF \E k \in 1..Len(n.elts) : TargetCheck(n.elts[k]) = "Other" THEN "Other"
           ELSE IF \A k \in 1..Len(n.elts) : TargetCheck(n.elts[k]) = "ok" THEN "ok"
           ELSE "SyntaxError"
      [] OTHER -> "SyntaxError"

\* expr_stmt: testlist ('=' testlist)*; acc: the testlists left of an "="
PExprStmt(ts, p, acc) ==
    LET e == P("testlist", ts, p, [acc |-> <<>>, comma |-> FALSE])
    IN  IF e.t # "ok" THEN e
        ELSE IF IsOp(ts, e.p, "=") THEN P("expr_stmt", ts, e.p + 1, Append(acc, e.n))
        ELSE IF Len(acc) = 0 THEN Ok(Expr(e.n), e.p)
        ELSE IF \E k \in 1..Len(acc) : TargetCheck(acc[k]) = "Other" THEN Other
        ELSE IF \E k \in 1..Len(acc) : TargetCheck(acc[k]) # "ok" THEN SyntaxError
        ELSE Ok(Assign(acc, e.n), e.p)

NotAName == ReservedNames \cup {"None", "True", "False"}

\* dotted_name: NAME ('.' NAME)*, as the text of the module path
PDotted(ts, p, acc) ==
    IF Tok(ts, p).k # "NAME" \/ Tok(ts, p).v \in NotAName THEN SyntaxError
    ELSE IF IsOp(ts, p + 1, ".") THEN P("dotted", ts, p + 2, acc \o Tok(ts, p).v \o ".")
    ELSE Ok(acc \o Tok(ts, p).v, p + 1)

\* names of an import: name ['as' NAME] (',' name ['as' NAME])*; dotted says
\* whether a name may be a dotted_name (import) or is a NAME (from ... import)
PAliases(ts, p, acc, dotted) ==
    LET nm == P("dotted", ts, p, "")
        as == IsKw(ts, nm.p, "as")
        a  == Tok(ts, nm.p + 1)
        q  == IF as THEN nm.p + 2 ELSE nm.p
        al == [name |-> nm.n, asname |-> IF as THEN a.v ELSE ""]
    IN  IF nm.t # "ok" THEN nm
        ELSE IF ~dotted /\ IsOp(ts, p + 1, ".") THEN SyntaxError
        ELSE IF as /\ (a.k # "NAME" \/ a.v \in NotAName) THEN SyntaxError
        ELSE IF IsOp(ts, q, ",")
        THEN P("aliases", ts, q + 1, [acc |-> Append(acc, al), dotted |-> dotted])
        ELSE Ok(Append(acc, al), q)

\* one statement and the NEWLINE that ends it
PStmt(ts, p) ==
    LET st == IF IsKw(ts, p, "import")
              THEN LET r == P("aliases", ts, p + 1, [acc |-> <<>>, dotted |-> TRUE])
                   IN  IF r.t # "ok" THEN r ELSE Ok(Import(r.n), r.p)
              ELSE IF IsKw(ts, p, "from")
              THEN LET m == P("dotted", ts, p + 1, "")
                   IN  IF IsOp(ts, p + 1, ".") THEN Other
                       ELSE IF m.t # "ok" THEN m
                       ELSE IF ~IsKw(ts, m.p, "import") THEN SyntaxError
                       ELSE IF IsOp(ts, m.p + 1, "(") \/ IsOp(ts, m.p + 1, "*") THEN Other
                       ELSE LET r == P("aliases", ts, m.p + 1, [acc |-> <<>>, dotted |-> FALSE])
                            IN  IF r.t # "ok" THEN r ELSE Ok(ImportFrom(m.n, r.n), r.p)
              ELSE P("expr_stmt", ts, p, <<>>)
    IN  IF st.t # "ok" THEN st
        ELSE IF Tok(ts, st.p).k # "NL" THEN SyntaxError
        ELSE Ok(st.n, st.p + 1)

\* the statements from position p on; body: those before
PModule(ts, p, body) ==
    IF p > Len(ts) THEN [t |-> "ok", body |-> body]
    ELSE LET st == P("stmt", ts, p, <<>>)
         IN  IF st.t # "ok" THEN st ELSE P("module", ts, st.p, Append(body, st.n))

\* rule `rule` at position p of ts; x: what the rule has collected so far
P(rule, ts, p, x) ==
    CASE rule = "test" -> PTest(ts, p)
      [] rule = "star_or_test" -> PStarOrTest(ts, p)
      [] rule = "unary" -> PUnary(ts, p)
      [] rule = "atom" -> PAtom(ts, p)
      [] rule = "strings" -> PStrings(ts, p, x)
      [] rule = "trailers" -> PTrailers(ts, p, x)
      [] rule = "elts" -> PElts(ts, p, x.close, x.acc, x.comma)
      [] rule = "dict" -> PDictItems(ts, p, x.keys, x.values)
      [] rule = "args" -> PArgs(ts, p, x.c, x.comma)
      [] rule = "testlist" -> PTestList(ts, p, x.acc, x.comma)
      [] rule = "expr_stmt" -> PExprStmt(ts, p, x)
      [] rule = "dotted" -> PDotted(ts, p, x)
      [] rule = "aliases" -> PAliases(ts, p, x.acc, x.dotted)
      [] rule = "stmt" -> PStmt(ts, p)
      [] rule = "module" -> PModule(ts, p, x)

\* ast.parse(text).body, SyntaxError, or Other
ast_parse(text) ==
    LET ts == tokenize(text)
    IN  IF \E k \in 1..Len(ts) : ts[k].k = "OTHER" THEN Other
        ELSE IF \E k \in 1..Len(ts) : ts[k].k = "ERR" THEN SyntaxError
        ELSE P("module", ts, 1, <<>>)

-----------------------------------------------------------------------------
(* The node handlers.  A handler returns a Python str (Strv), a Python list of  *)
(* str (List), or raises (Raise).                                               *)

Strv(s) == [t |-> "str", v |-> s]

\* what iterating a returned value yields: the lines of a list, the characters
\* of a str.  `ret += value`, `value[0]` and `value[1:]` go through it.
Items(val) == IF val.t = "str" THEN Chars(val.v) ELSE val.v

\* the first value that raised, if any
FirstRaise(vals) ==
    IF \E k \in 1..Len(vals) : IsRaise(vals[k])
    THEN vals[CHOOSE k \in 1..Len(vals) :
                  IsRaise(vals[k]) /\ \A j \in 1..(k - 1) : ~IsRaise(vals[j])]
    ELSE None

\* repr() of a str, for text without control characters
RECURSIVE Escape(_, _)
Escape(s, q) ==
    IF Len(s) = 0 THEN ""
    ELSE (IF Ch(s, 1) \in {q, "\\"} THEN "\\" \o Ch(s, 1) ELSE Ch(s, 1))
         \o Escape(From(s, 1), q)

repr(s) ==
    LET q == IF Contains(s, "'") /\ ~Contains(s, "\"") THEN "\"" ELSE "'"
    IN  q \o Escape(s, q) \o q

\* '{0}'.format(value): a str as it is, a list as its repr
str_format(val) ==
    IF val.t = "str" THEN val.v
    ELSE "[" \o join(", ", [k \in 1..Len(val.v) |-> repr(val.v[k])]) \o "]"

\* ', '.join(args): a TypeError when an item is a list
join_values(sep, vals) ==
    IF \E k \in 1..Len(vals) : vals[k].t # "str" THEN Raise("TypeError")
    ELSE Strv(join(sep, [k \in 1..Len(vals) |-> vals[k].v]))

\* fit with the inclusive test `len(line) <= width`
fit_inclusive(open, items, close, w) ==
    LET joined == join_values(", ", items)
        line   == open \o joined.v \o close
    IN  IF IsRaise(joined) THEN joined
        ELSE IF Len(line) <= w THEN List(<<line>>)
        ELSE List(<<open>> \o [k \in 1..Len(items) |-> "    " \o items[k].v \o ","]
                  \o <<close>>)

\* the tail of handle_call, handle_dict and _handle_iterable: one line when it
\* is shorter than width, else one item per line
fit(open, items, close, w) ==
    LET joined == join_values(", ", items)
        line   == open \o joined.v \o close
    IN  IF IsRaise(joined) THEN joined
        ELSE IF Len(line) < w THEN List(<<line>>)
        ELSE List(<<open>> \o [k \in 1..Len(items) |-> "    " \o items[k].v \o ","]
                  \o <<close>>)

RECURSIVE parse(_, _)
RECURSIVE handle_assign(_, _)
RECURSIVE handle_call(_, _)
RECURSIVE handle_dict(_, _)
RECURSIVE handle_keyword(_, _)
RECURSIVE _handle_stars(_, _, _)
RECURSIVE _handle_iterable(_, _, _)

handle_num(node, w) == Strv(node.n)

handle_nameconstant(node, w) == Strv(node.value)

handle_str(node, w) == Strv("\"" \o node.s \o "\"")

handle_name(node, w) == Strv(node.id)

handle_expr(node, w) == parse(node.value, w)

handle_assign(node, w) ==
    LET value == parse(node.value, w)
    IN  IF \E k \in 1..Len(node.targets) : node.targets[k].kind # "Name"
        THEN Raise("AttributeError")
        ELSE IF IsRaise(value) THEN value
        ELSE IF Len(Items(value)) = 0 THEN Raise("IndexError")
        ELSE List(<<join(", ", [k \in 1..Len(node.targets) |-> node.targets[k].id])
                    \o " = " \o Items(value)[1]>>
                  \o Tail(Items(value)))

handle_keyword(node, w) ==
    LET value == parse(node.value, w)
    IN  IF IsRaise(value) THEN value ELSE Strv(node.arg \o "=" \o str_format(value))

\* _handle_stars: the items a starred argument adds to args
_handle_stars(tok, items, w) ==
    LET targets == parse(items, w)
        n       == Len(targets.v)
    IN  IF IsRaise(targets) THEN targets
        ELSE IF targets.t = "str" THEN List(<<Strv(tok \o targets.v)>>)
        ELSE IF n = 0 THEN Raise("IndexError")
        ELSE IF n = 1 THEN List(<<Strv(tok \o targets.v[1])>>)
        ELSE List(<<Strv(tok \o targets.v[1])>>
                  \o [k \in 1..(n - 2) |-> Strv(To(targets.v[k + 1], Len(targets.v[k + 1]) - 1))]
                  \o <<Strv(targets.v[n])>>)

handle_call(node, w) ==
    LET pos   == [k \in 1..Len(node.args) |-> parse(node.args[k], w)]
        kws   == [k \in 1..Len(node.keywords) |-> handle_keyword(node.keywords[k], w)]
        star  == IF node.starargs # None THEN _handle_stars("*", node.starargs, w) ELSE List(<<>>)
        dstar == IF node.kwargs # None THEN _handle_stars("**", node.kwargs, w) ELSE List(<<>>)
        first == FirstRaise(pos \o kws \o <<star, dstar>>)
    IN  IF node.func.kind # "Name" THEN Raise("AttributeError")
        ELSE IF first # None THEN first
        ELSE fit(node.func.id \o "(", pos \o kws \o star.v \o dstar.v, ")", w)

handle_dict(node, w) ==
    LET ks    == [k \in 1..Len(node.keys) |-> parse(node.keys[k], w)]
        vs    == [k \in 1..Len(node.keys) |-> parse(node.values[k], w)]
        first == FirstRaise([k \in 1..(2 * Len(ks)) |->
                                IF k % 2 = 1 THEN ks[(k + 1) \div 2] ELSE vs[k \div 2]])
    IN  IF Len(node.keys) = 0 THEN List(<<"{}">>)
        ELSE IF first # None THEN first
        ELSE fit("{", [k \in 1..Len(ks) |->
                          Strv(str_format(ks[k]) \o ": " \o str_format(vs[k]))], "}", w)

\* _handle_iterable
_handle_iterable(tokens, items, w) ==
    LET vals  == [k \in 1..Len(items) |-> parse(items[k], w)]
        first == FirstRaise(vals)
    IN  IF Len(items) = 0 THEN List(<<tokens>>)
        ELSE IF first # None THEN first
        ELSE fit(Ch(tokens, 1), vals, Ch(tokens, 2), w)

handle_list(node, w) == _handle_iterable("[]", node.elts, w)

handle_tuple(node, w) == _handle_iterable("()", node.elts, w)

handle_set(node, w) == _handle_iterable("{}", node.elts, w)

\* _handle_import
_handle_import(node, module) ==
    List([k \in 1..Len(node.names) |->
             (IF module # "" THEN "from " \o module \o " " ELSE "")
             \o "import " \o node.names[k].name
             \o (IF node.names[k].asname # "" THEN " as " \o node.names[k].asname ELSE "")])

handle_importfrom(node, w) == _handle_import(node, node.module)

handle_import(node, w) == _handle_import(node, "")

\* Formatter.parse: dispatch on the node's class name
parse(node, w) ==
    CASE node.kind = "Assign" -> handle_assign(node, w)
      [] node.kind = "Call" -> handle_call(node, w)
      [] node.kind = "Num" -> handle_num(node, w)
      [] node.kind = "NameConstant" -> handle_nameconstant(node, w)
      [] node.kind = "Expr" -> handle_expr(node, w)
      [] node.kind = "Dict" -> handle_dict(node, w)
      [] node.kind = "Str" -> handle_str(node, w)
      [] node.kind = "Name" -> handle_name(node, w)
      [] node.kind = "List" -> handle_list(node, w)
      [] node.kind = "Tuple" -> handle_tuple(node, w)
      [] node.kind = "Set" -> handle_set(node, w)
      [] node.kind = "ImportFrom" -> handle_importfrom(node, w)
      [] node.kind = "Import" -> handle_import(node, w)
      [] OTHER -> Raise("Exception")

-----------------------------------------------------------------------------
(* Formatter.unindent, Formatter.reindent and the steps of Formatter.format *)

\* unindent: the lines without the first line's indent, and that indent;
\* lines[0] raises on an empty fragment, re.search finds no \S in a blank line
unindent(ls) ==
    IF Len(ls) = 0 THEN Raise("IndexError")
    ELSE IF LeadingWs(ls[1]) = Len(ls[1]) THEN Raise("AttributeError")
    ELSE LET n == LeadingWs(ls[1])
         IN  [t |-> "ok", indent |-> n,
              data |-> IF n = 0 THEN ls ELSE [k \in 1..Len(ls) |-> From(ls[k], n)]]

\* reindent that hands the lines back as they are
reindent_dropped(ls, n) == ls

reindent(ls, n) == IF n = 0 THEN ls ELSE [k \in 1..Len(ls) |-> Spaces(n) \o ls[k]]

\* the segmentation step without the test `blocks[-1] != []`
segment_line_unguarded(bl, line) ==
    LET last          == bl[Len(bl)]
        comment       == startswith(line, "#")
        comment_block == Len(last) > 0 /\ startswith(last[1], "#")
    IN  IF comment # comment_block
        THEN Append(bl, <<line>>)
        ELSE [bl EXCEPT ![Len(bl)] = Append(@, line)]

\* the body of the segmentation loop: the blocks after one more line
segment_line(bl, line) ==
    LET last          == bl[Len(bl)]
        comment       == startswith(line, "#")
        comment_block == Len(last) > 0 /\ startswith(last[1], "#")
    IN  IF Len(last) > 0 /\ comment # comment_block
        THEN Append(bl, <<line>>)
        ELSE [bl EXCEPT ![Len(bl)] = Append(@, line)]

\* for node in root.body: ret += self.parse(node, width)
RECURSIVE render_body(_, _, _)
render_body(body, w, acc) ==
    IF Len(body) = 0 THEN List(acc)
    ELSE LET val == parse(body[1], w)
         IN  IF IsRaise(val) THEN val ELSE render_body(Tail(body), w, acc \o Items(val))

\* the body of the rendering loop for one block: the lines to add to ret, an
\* exception, Hang, or Other (a block outside the modelled grammar)
render_block(block, w) ==
    IF Len(block) = 0 THEN Raise("IndexError")
    ELSE IF startswith(block[1], "#") THEN format_comments("# ", block, w)
    ELSE LET root == ast_parse(join("\n", block))
         IN  IF root.t = "Other" THEN Other
             ELSE IF root.t = "SyntaxError" THEN format_comments("", block, w)
             ELSE render_body(root.body, w, <<>>)

\* an except clause that keeps what was rendered before the exception
except_clause_partial(ls, partial) == partial

\* the except clause of format: what is returned after an exception
except_clause(ls, partial) == ls

-----------------------------------------------------------------------------
(* The fragments and widths format is called with *)

MaxIndent == 2

MaxWidth == 10

MaxLines == 3

MaxKids == 2

\* the default of format's width
DefaultWidth == 79

Widths == 0..MaxWidth \cup {DefaultWidth}

SeqsUpTo(S, n) == UNION {[1..k -> S] : k \in 1..n}

KidSeqs == SeqsUpTo({"a", "12"}, MaxKids)

PairSeqs == SeqsUpTo({"a: 12", "\"s\": a"}, MaxKids)

ArgSeqs ==
    KidSeqs \cup {<<"\"s\"">>, <<"a", "x=12">>, <<"*a">>, <<"a", "**k">>, <<"x=a", "*b", "**k">>}

\* a construct whose children are primitives: its tokens and its children's text
Form(open, kids, close) == [open |-> open, kids |-> kids, close |-> close]

CallForms == {Form("f(", k, ")") : k \in ArgSeqs}

CollectionForms ==
    {Form("[", k, "]") : k \in KidSeqs}
    \cup {Form("{", k, "}") : k \in KidSeqs}
    \cup {Form("(", k, ")") : k \in {q \in KidSeqs : Len(q) > 1}}

DictForms == {Form("{", k, "}") : k \in PairSeqs}

ConstructForms == CallForms \cup CollectionForms \cup DictForms

\* the construct on one line
OneLine(f) == f.open \o join(", ", f.kids) \o f.close

Constructs == {OneLine(f) : f \in ConstructForms}

AssignPrefix == "x = "

ConstructStmts == Constructs \cup {AssignPrefix \o c : c \in Constructs}

\* names, numbers, strings and constants, as statements and as assigned values
Primitives == {"a", "ab", "12", "\"s\"", "None"}

PrimitiveStmts ==
    Primitives \cup {AssignPrefix \o q : q \in Primitives} \cup {"'s'", "x = 's'", "a = b = 1"}

\* a construct as a dict key, a dict value or a keyword value
NestedPairStmts ==
    {"{a: [1]}", "{[1]: a}", "f(x=[1])", "f(x=g(a))", "x = {a: {b: 1}}", "f(x={a: 1})"}

\* a construct as a positional child or a starred argument
NestedStmts == {"f([1])", "[g(a)]", "(a, [1])", "f(*[1, 2])", "f(a, **{b: 1})", "f(a)(b)"}

\* statements with a node the formatter has no handler for
UnhandledStmts ==
    {"a + b", "f(a + b)", "x = [a.b]", "{a: f(x=[a + b])}", "a.b = 1", "a.b(1)",
     "f(*a.b)", "x = +1"}

\* a statement of handled node kinds on which a handler raises
RaisingStmts == {"a, b = 1"}

ImportStmts == {"import a, b", "from m import a as b, c", "import a.b as c"}

\* lines ast.parse rejects
ProseLines == {"one two", "x = (", "f(a,", "1 = x", "f(x=1, 2)", "f(*a,)", "x = \"a"}

CommentLines == {"# one two", "#  a", "#", "# ", "#ab", "# abcdefghijk l"}

OneLiners ==
    ConstructStmts \cup PrimitiveStmts \cup NestedPairStmts \cup NestedStmts
    \cup UnhandledStmts \cup RaisingStmts \cup ImportStmts \cup ProseLines \cup CommentLines

\* fragments of several lines: comments, code, a blank line, an unhandled node
MixedLines == {"# c d", "ab", "", "a.b"}

Fragments ==
    {<<>>, <<"f(", "    a,", ")">>, <<"x = 1", "  y = 2">>, <<"# c", "#", "f(a,b)">>}
    \cup {<<l>> : l \in OneLiners}
    \cup SeqsUpTo(MixedLines, MaxLines)

\* a fragment as the editor hands it over: indented by k columns; ragged: only
\* its first line is
Indented(frag, k, ragged) ==
    [j \in 1..Len(frag) |-> IF j = 1 \/ ~ragged THEN Spaces(k) \o frag[j] ELSE frag[j]]

Inputs == {Indented(f, k, r) : f \in Fragments, k \in 0..MaxIndent, r \in BOOLEAN}

-----------------------------------------------------------------------------
(* format, step by step *)

Init ==
    /\ lines \in Inputs
    /\ width \in Widths
    /\ arg = [lines |-> lines, width |-> width]
    /\ call = 1
    /\ pc = "start"
    /\ data = <<>> /\ indent = 0 /\ blocks = <<>> /\ ret = <<>>
    /\ i = 0 /\ b = 0 /\ raised = FALSE /\ out = <<>>

\* the except clause: format returns
Except ==
    /\ ret' = except_clause(lines, ret)
    /\ raised' = TRUE
    /\ pc' = "done"

\* lines 15-23: the locals, unindent, and the width less the indent
Unindent ==
    /\ pc = "start"
    /\ LET u == unindent(lines)
       IN  IF IsRaise(u)
           THEN Except /\ UNCHANGED <<data, indent, width, blocks>>
           ELSE /\ data' = u.data
                /\ indent' = u.indent
                /\ width' = width - u.indent
                /\ blocks' = <<<<>>>>
                /\ ret' = <<>>
                /\ pc' = "segment"
                /\ UNCHANGED raised
    /\ UNCHANGED <<lines, i, b, call, arg, out>>

\* lines 25-33: one turn of the segmentation loop
SegmentLine ==
    /\ pc = "segment"
    /\ i < Len(data)
    /\ blocks' = segment_line(blocks, data[i + 1])
    /\ i' = i + 1
    /\ pc' = IF i + 1 = Len(data) THEN "render" ELSE "segment"
    /\ UNCHANGED <<lines, width, data, indent, ret, b, raised, call, arg, out>>

\* lines 35-49: one turn of the rendering loop
RenderBlock ==
    /\ pc = "render"
    /\ b < Len(blocks)
    /\ LET r == render_block(blocks[b + 1], width)
       IN  CASE r.t = "raise" -> Except /\ UNCHANGED b
             [] r.t = "hang" -> pc' = "hang" /\ UNCHANGED <<ret, raised, b>>
             [] r.t = "Other" -> pc' = "other" /\ UNCHANGED <<ret, raised, b>>
             [] OTHER -> /\ ret' = ret \o r.v
                         /\ b' = b + 1
                         /\ pc' = IF b + 1 = Len(blocks) THEN "reindent" ELSE "render"
                         /\ UNCHANGED raised
    /\ UNCHANGED <<lines, width, data, indent, blocks, i, call, arg, out>>

\* line 51, and the return
Reindent ==
    /\ pc = "reindent"
    /\ ret' = reindent(ret, indent)
    /\ pc' = "done"
    /\ UNCHANGED <<lines, width, data, indent, blocks, i, b, raised, call, arg, out>>

\* the result is formatted again, at the same width
Again ==
    /\ pc = "done"
    /\ call = 1
    /\ out' = ret
    /\ lines' = ret
    /\ width' = arg.width
    /\ call' = 2
    /\ pc' = "start"
    /\ data' = <<>> /\ indent' = 0 /\ blocks' = <<>> /\ ret' = <<>>
    /\ i' = 0 /\ b' = 0 /\ raised' = FALSE
    /\ UNCHANGED arg

Next == Unindent \/ SegmentLine \/ RenderBlock \/ Reindent \/ Again

Spec == Init /\ [][Next]_vars

\* no block the model renders is outside the grammar ast_parse models
InGrammar == pc # "other"

-----------------------------------------------------------------------------
(* format_comments on its own: any token, block and width *)

Tokens == {"# ", ""}

FCLines == {"# ab cd", "abcde f", "# ", "#  a", "#ab # c"}

FCBlocks == SeqsUpTo(FCLines, MaxLines)

InitFC ==
    /\ lines \in FCBlocks
    /\ width \in 0..MaxWidth
    /\ \E tok \in Tokens : arg = [token |-> tok, lines |-> lines, width |-> width]
    /\ call = 1
    /\ pc = "fc"
    /\ data = <<>> /\ indent = 0 /\ blocks = <<>> /\ ret = <<>>
    /\ i = 0 /\ b = 0 /\ raised = FALSE /\ out = <<>>

\* lines 60-82: the call and how it ends
FormatComments ==
    /\ pc = "fc"
    /\ LET r == format_comments(arg.token, lines, width)
       IN  CASE r.t = "raise" -> pc' = "fc_raised" /\ raised' = TRUE /\ UNCHANGED ret
             [] r.t = "hang" -> pc' = "hang" /\ UNCHANGED <<ret, raised>>
             [] OTHER -> pc' = "fc_done" /\ ret' = r.v /\ UNCHANGED raised
    /\ UNCHANGED <<lines, width, data, indent, blocks, i, b, call, arg, out>>

NextFC == FormatComments

SpecFC == InitFC /\ [][NextFC]_vars

-----------------------------------------------------------------------------
(* What the properties below are stated with *)

IsComment(line) == startswith(line, "#")

RECURSIVE Concat(_)
Concat(seqs) == IF Len(seqs) = 0 THEN <<>> ELSE seqs[1] \o Concat(Tail(seqs))

\* the whitespace-delimited words of a text, in order
RECURSIVE WordLen(_)
WordLen(s) ==
    IF Len(s) > 0 /\ Ch(s, 1) \notin Whitespace THEN 1 + WordLen(From(s, 1)) ELSE 0

RECURSIVE Words(_)
Words(s) ==
    IF Len(s) = 0 THEN <<>>
    ELSE IF Ch(s, 1) \in Whitespace THEN Words(From(s, 1))
    ELSE <<To(s, WordLen(s))>> \o Words(From(s, WordLen(s)))

Unprefixed(line, tok) == IF startswith(line, tok) THEN From(line, Len(tok)) ELSE line

\* the indented one-line fragment of a statement
OneLineInput(stmt, k) == <<Spaces(k) \o stmt>>

Prefixes == {"", AssignPrefix}

\* the expanded form: the opening token, one child per line, the closing token
Expanded(f) ==
    <<f.open>> \o [k \in 1..Len(f.kids) |-> "    " \o f.kids[k] \o ","] \o <<f.close>>

\* the lines format is expected to return for the construct f after the prefix
\* pre at indent k: collapsed when shorter than the effective width
Expected(f, pre, k, w) ==
    IF Len(OneLine(f)) < w - k
    THEN <<Spaces(k) \o pre \o OneLine(f)>>
    ELSE [j \in 1..(Len(f.kids) + 2) |->
             Spaces(k) \o (IF j = 1 THEN pre ELSE "") \o Expanded(f)[j]]

IsConstructInput(ls) ==
    \E f \in ConstructForms, pre \in Prefixes, k \in 0..MaxIndent :
        ls = OneLineInput(pre \o OneLine(f), k)

UnhandledLines == UnhandledStmts \cup {"a.b"}

\* the fragment is uniformly indented, each of its lines is a comment, a blank
\* line or a statement of its own (so that every code block parses), and one
\* of them is a statement with a node that has no handler
HasUnhandled(ls) ==
    /\ Len(ls) > 0
    /\ LET k == LeadingWs(ls[1])
       IN  /\ \A j \in 1..Len(ls) :
                 /\ startswith(ls[j], Spaces(k))
                 /\ From(ls[j], k) \in UnhandledLines \cup MixedLines
           /\ \E j \in 1..Len(ls) : From(ls[j], k) \in UnhandledLines

\* statements made of the node kinds the formatter covers
CoveredStmts ==
    ConstructStmts \cup PrimitiveStmts \cup ImportStmts \cup {"f(*[1, 2])", "f(a, **{b: 1})"}

\* the words of format_comments' input after token removal, and of its output
InWords ==
    Words(join(" ", [k \in 1..Len(arg.lines) |->
                        IF arg.token = "" THEN arg.lines[k]
                        ELSE remove(arg.lines[k], arg.token)]))

OutWords == Words(join(" ", [k \in 1..Len(ret) |-> Unprefixed(ret[k], arg.token)]))

\* the columns a line has for words
Room == arg.width - Len(arg.token)

-----------------------------------------------------------------------------
(* The properties *)

\* C1: when format ends in the except clause, or the fragment has a node with
\* no handler (in any block, at any depth), format returns the input lines as
\* they were, and nothing of the blocks rendered before the failure.
C1_FailureReturnsInput ==
    (pc = "done" /\ (raised \/ HasUnhandled(lines))) => ret = lines

\* a call that rendered a block and then failed on a node without handler
C1_Witness ==
    pc = "done" /\ call = 1 /\ raised /\ b > 0 /\ indent > 0 /\ HasUnhandled(lines)

\* C2: a call, list, tuple, set or dict whose children are one-line texts is
\* returned on one line if and only if that line is shorter than the width
\* given to format less the indent; at equal length and beyond it is returned
\* expanded: opening token, one child per line with four spaces and a comma,
\* closing token.
C2_CollapsedIffShorter ==
    (pc = "done" /\ call = 1 /\ Len(lines) = 1) =>
        LET k == LeadingWs(lines[1])
        IN  \A f \in ConstructForms, pre \in Prefixes :
                lines = OneLineInput(pre \o OneLine(f), k)
                    => ret = Expected(f, pre, k, arg.width)

\* an indented list whose one-line form is exactly as long as the effective
\* width, returned expanded
C2_Witness ==
    /\ pc = "done" /\ call = 1
    /\ lines = <<"  [a, 12]">> /\ arg.width = 9
    /\ ret = <<"  [", "      a,", "      12,", "  ]">>

\* C3: on a fragment of covered node kinds, formatting the result again at the
\* same width returns the same lines.
C3_Idempotent ==
    (/\ pc = "done" /\ call = 2
     /\ \E stmt \in CoveredStmts, k \in 0..MaxIndent : arg.lines = OneLineInput(stmt, k))
        => ret = out

\* C4: the blocks of the segmentation loop, concatenated, are the lines read so
\* far; once a line is read no block is empty, the lines of a block are all
\* comments or all not, and adjacent blocks differ in that.
C4_Segmentation ==
    pc \in {"segment", "render"} =>
        /\ Concat(blocks) = SubSeq(data, 1, i)
        /\ (i > 0 =>
              /\ \A k \in 1..Len(blocks) :
                    /\ Len(blocks[k]) > 0
                    /\ \A j \in 1..Len(blocks[k]) :
                          IsComment(blocks[k][j]) = IsComment(blocks[k][1])
              /\ \A k \in 1..(Len(blocks) - 1) :
                    IsComment(blocks[k][1]) # IsComment(blocks[k + 1][1]))

\* the loop has ended with a block of two lines followed by a block of the
\* other kind
C4_Witness ==
    /\ pc = "render" /\ i = Len(data)
    /\ Len(blocks) = 2 /\ Len(blocks[1]) = 2 /\ IsComment(blocks[2][1])

\* C5: the first line format returns has as many leading whitespace characters
\* as the first line it was given.
C5_IndentRoundTrip ==
    (pc = "done" /\ Len(lines) > 0) =>
        (Len(ret) > 0 /\ LeadingWs(ret[1]) = LeadingWs(lines[1]))

\* an indented fragment that was rewritten
C5_Witness ==
    pc = "done" /\ call = 1 /\ ~raised /\ indent = MaxIndent /\ ret # lines

\* C6: a name, number, string or constant, as a statement or as the value of
\* an assignment, is returned as one line holding the whole text.
C6_PrimitiveOnOneLine ==
    (/\ pc = "done" /\ call = 1
     /\ \E q \in Primitives, pre \in Prefixes, k \in 0..MaxIndent :
            lines = OneLineInput(pre \o q, k))
        => ret = lines

C8_CollapsedLineShorterThanWidth ==
    (pc = "done" /\ call = 1 /\ IsConstructInput(lines) /\ Len(ret) = 1)
        => Len(ret[1]) < arg.width

\* C9: when a line of the fragment is shorter than the indent of the first
\* line, format returns the input lines as they were.
C9_ShortLineFallsBack ==
    (/\ pc = "done" /\ call = 1
     /\ \E k \in 1..Len(lines) : Len(lines[k]) < LeadingWs(lines[1]))
        => ret = lines

\* C10: on a fragment whose dict key, dict value or keyword value is a
\* construct, format returns the input, or lines without the printed form of a
\* Python list of lines around the child's text.
C10_NestedPairNeverCorrupted ==
    (/\ pc = "done" /\ call = 1
     /\ \E stmt \in NestedPairStmts, k \in 0..MaxIndent : lines = OneLineInput(stmt, k))
        => (ret = lines \/ \A j \in 1..Len(ret) : ~Contains(ret[j], "['"))

=============================================================================
